---- MODULE Spec2Model ----
(* ID allocation engine of distinctid (src/distinctid/__init__.py): the      *)
(* backend counter, the Local ID Buffer, the epoch base cache and the ID     *)
(* composer, run by concurrent callers.                                      *)
EXTENDS Integers, Sequences, FiniteSets, TLC

VARIABLES
    counter,      \* backend counter per key (Redis INCR / INCRBY target)
    idBuffer,     \* _id_buffer: 0 is None, else an index into buffers
    buffers,      \* every IDBuffer object constructed so far
    epochCache,   \* _epoch_base_cache: <<>> is None, else <<year, epoch_ms>>
    clock,        \* wall clock, in milliseconds
    th,           \* per caller: position in its call, arguments, locals, outcome
    log,          \* completed allocation calls, in order of return
    env,          \* what the environment may still do (calls, ticks, failures)
    enableMetrics \* _enable_metrics: whether backend calls are timed and logged

vars == <<counter, idBuffer, buffers, epochCache, clock, th, log, env, enableMetrics>>

shared == <<counter, idBuffer, buffers, epochCache>>

-----------------------------------------------------------------------------
(* Bounds of the model *)

MaxCalls == 4
MaxSeqCalls == 5
MaxArgCalls == 4
MaxTicks == 2
MaxBuffers == 2
MaxFails == 1
\* Milliseconds in a calendar year (scaled down).
YearMs == 3
\* The count of the concurrent callers' batches.
BatchCount == 2
\* The buffer size of the sequential caller.
SeqBufferSize == 3
\* The calls of the caller of batches.
MaxBatchCalls == 1
\* The calls of the caller of the buffer test: enable_buffering and 15 allocations.
MaxBufCalls == 16
\* The calls of the callers whose backend fails.
MaxFailCalls == 3
MaxAsyncCalls == 3
MaxLockCalls == 5
MaxEpochCalls == 3
MaxFrameCalls == 6
MaxSizeCalls == 4
MaxComposeCalls == 2

(* Program constants *)

SHARD_LIMIT == 8192
SEQ_MOD == 1024
TIME_SHIFT == 23
SHARD_SHIFT == 10
DefaultShard == 1
\* test_buffer_refill: buffer_size = 10
TestBufferSize == 10

(* Callers and the arguments they pass *)

Threads == {"t1", "t2"}
Keys == {"k1", "k2"}
\* The boundaries of the shard range, as in test_distinct_shard_id_validation.
ShardInputs == {-1, 0, 8191, 8192}
\* The counts of test_distinct_batch_validation, and a valid one.
CountInputs == {-5, 0, 2}
\* Batch sizes: a small one, the whole sequence space, and one more than it.
BatchCounts == {BatchCount, SEQ_MOD, SEQ_MOD + 1}
\* Shards of the batches.
BatchShards == {0, DefaultShard}
\* Positive buffer sizes: one value per refill, and one full sequence space.
BufferSizes == {1, 1024}
\* The buffer sizes of the buffer test: the smallest one and the test's.
TestBufferSizes == {1, TestBufferSize}
\* Counter values a key starts with (preset as the tests do with client.set).
InitCounters == {0, 1021, 1023}
SingleOps == {"distinct", "distinct_async"}
BatchOps == {"distinct_batch", "distinct_batch_async"}
AdminOps == {"enable_buffering", "disable_buffering"}
\* The backend errors the entry points catch.
BackendErrors == {"ConnectionError", "TimeoutError"}

-----------------------------------------------------------------------------
(* Pure functions *)

Pow2(n) == 2 ^ n

\* Python's x << n on unbounded integers.
Shl(x, n) == x * Pow2(n)

\* Python's a | b on unbounded two's complement integers.
RECURSIVE BitOr(_, _)
BitOr(a, b) ==
    IF a = 0 THEN b
    ELSE IF b = 0 THEN a
    ELSE IF a = -1 \/ b = -1 THEN -1
    ELSE (IF a % 2 = 1 \/ b % 2 = 1 THEN 1 ELSE 0) + 2 * BitOr(a \div 2, b \div 2)

\* Mutant: the upper limit is compared with <= instead of <.
ValidShardInclusive(shard_id) == 0 <= shard_id /\ shard_id <= SHARD_LIMIT

\* _validate_shard_id: TRUE when no ValueError is raised.
ValidShard(shard_id) == 0 <= shard_id /\ shard_id < SHARD_LIMIT

\* Mutant: the sequence component is taken from the zero-based counter value.
ComposeZeroBased(time_delta, shard_id, new_id) ==
    BitOr(BitOr(Shl(time_delta, TIME_SHIFT), Shl(shard_id, SHARD_SHIFT)),
          (new_id - 1) % SEQ_MOD)

\* Mutant: the time delta is not shifted above the shard and the sequence.
ComposeUnshiftedTime(time_delta, shard_id, new_id) ==
    BitOr(BitOr(time_delta, Shl(shard_id, SHARD_SHIFT)), new_id % SEQ_MOD)

\* Mutant: the sequence component takes nine bits.
ComposeShortSeq(time_delta, shard_id, new_id) ==
    BitOr(BitOr(Shl(time_delta, TIME_SHIFT), Shl(shard_id, SHARD_SHIFT)),
          new_id % (SEQ_MOD \div 2))

\* Mutant: the counter value is used without the modulo.
ComposeNoModulo(time_delta, shard_id, new_id) ==
    BitOr(BitOr(Shl(time_delta, TIME_SHIFT), Shl(shard_id, SHARD_SHIFT)), new_id)

\* Mutant: the shard is left out of the identifier.
ComposeDropsShard(time_delta, shard_id, new_id) ==
    BitOr(Shl(time_delta, TIME_SHIFT), new_id % SEQ_MOD)

\* Mutant: the time delta is shifted one bit too far.
ComposeLongShift(time_delta, shard_id, new_id) ==
    BitOr(BitOr(Shl(time_delta, TIME_SHIFT + 1), Shl(shard_id, SHARD_SHIFT)),
          new_id % SEQ_MOD)

\* did = (result | (shard_id << 10)) | (new_id % 1024), result = time_delta << 23
Compose(time_delta, shard_id, new_id) ==
    BitOr(BitOr(Shl(time_delta, TIME_SHIFT), Shl(shard_id, SHARD_SHIFT)),
          new_id % SEQ_MOD)

\* date.today().year for a wall-clock reading
YearOf(ms) == ms \div YearMs

\* int(datetime(year, 1, 1).timestamp() * 1000)
YearStartMs(year) == year * YearMs

\* IDBuffer.__init__
NewBuffer(buffer_size) ==
    [buffer_size |-> buffer_size, current |-> 0, max |-> 0, lock |-> "free"]

-----------------------------------------------------------------------------
(* State *)

Idle == [pc |-> "idle", op |-> "none", shard |-> 0, key |-> "k1", count |-> 0,
         buf |-> 0, new_id |-> 0, epoch |-> 0, year |-> 0,
         outcome |-> "none", err |-> "none", ids |-> <<>>, ncalls |-> 0, calls |-> 0,
         inc |-> 0]

InitShared ==
    /\ idBuffer = 0
    /\ buffers = <<>>
    /\ epochCache = <<>>
    /\ enableMetrics = FALSE
    /\ clock = 2 * YearMs - 2
    /\ th = [t \in Threads |-> Idle]
    /\ log = <<>>

\* The counter of k1 is fresh or was preset (as the tests do with client.set).
Init ==
    /\ InitShared
    /\ \E c \in {0, 1022} : counter = [k \in Keys |-> IF k = "k1" THEN c ELSE 0]
    /\ env = [calls |-> MaxCalls, ticks |-> MaxTicks, fails |-> MaxFails]

\* One caller making its calls one after the other. A counter of c stands for a
\* fresh key after c unbuffered calls, or for a preset key.
InitSeq ==
    /\ InitShared
    /\ \E c \in InitCounters : counter = [k \in Keys |-> IF k = "k1" THEN c ELSE 0]
    /\ env = [calls |-> MaxSeqCalls, ticks |-> MaxTicks, fails |-> MaxFails]

\* One caller, a fresh key.
InitArgs ==
    /\ InitShared
    /\ counter = [k \in Keys |-> 0]
    /\ env = [calls |-> MaxArgCalls, ticks |-> 0, fails |-> MaxFails]

\* One caller of batches; the key is fresh or preset just below a multiple of 1024
\* (as test_batch_across_1024_boundary does); the clock may advance once.
InitBatch ==
    /\ InitShared
    /\ \E c \in {0, SEQ_MOD - 2} : counter = [k \in Keys |-> IF k = "k1" THEN c ELSE 0]
    /\ env = [calls |-> MaxBatchCalls, ticks |-> 1, fails |-> MaxFails]

\* One caller on a fresh key, the clock standing still (test_buffer_refill).
InitBuf ==
    /\ InitShared
    /\ counter = [k \in Keys |-> 0]
    /\ env = [calls |-> MaxBufCalls, ticks |-> 0, fails |-> 0]

\* Concurrent callers on a fresh key whose backend may fail.
InitFail ==
    /\ InitShared
    /\ counter = [k \in Keys |-> 0]
    /\ env = [calls |-> MaxFailCalls, ticks |-> 0, fails |-> MaxFails]

\* Tasks of one event loop calling the asynchronous entry points, the key fresh or
\* preset just below 1024, the clock running across the new year.
InitAsync ==
    /\ InitShared
    /\ \E c \in {0, SEQ_MOD - 2} : counter = [k \in Keys |-> IF k = "k1" THEN c ELSE 0]
    /\ env = [calls |-> MaxAsyncCalls, ticks |-> MaxTicks, fails |-> 0]

\* Threads sharing one buffer, on a fresh key.
InitLock ==
    /\ InitShared
    /\ counter = [k \in Keys |-> 0]
    /\ env = [calls |-> MaxLockCalls, ticks |-> 0, fails |-> 0]

\* Threads calling distinct() unbuffered on a fresh key, the clock running.
InitEpoch ==
    /\ InitShared
    /\ counter = [k \in Keys |-> 0]
    /\ env = [calls |-> MaxEpochCalls, ticks |-> MaxTicks, fails |-> 0]

\* One caller using two counter keys, both fresh.
InitFrame ==
    /\ InitShared
    /\ counter = [k \in Keys |-> 0]
    /\ env = [calls |-> MaxFrameCalls, ticks |-> 0, fails |-> 0]

\* AcceptedSizes: buffer sizes enable_buffering() takes; it validates nothing
AcceptedSizes == {-1, 0, 1, SeqBufferSize}

\* One caller on a fresh key, any accepted buffer size.
InitSizes ==
    /\ InitShared
    /\ counter = [k \in Keys |-> 0]
    /\ env = [calls |-> MaxSizeCalls, ticks |-> 0, fails |-> 0]

\* ComposeShards: the least, the default and the greatest valid shard
ComposeShards == {0, DefaultShard, SHARD_LIMIT - 1}

\* One caller; the key is fresh or preset around 1024, the clock runs to the first
\* millisecond of the new year.
InitCompose ==
    /\ InitShared
    /\ \E c \in InitCounters : counter = [k \in Keys |-> IF k = "k1" THEN c ELSE 0]
    /\ env = [calls |-> MaxComposeCalls, ticks |-> MaxTicks, fails |-> 0]

\* AllocOps: the four allocation entry points
AllocOps == SingleOps \cup BatchOps

Set(t, fields) == [th EXCEPT ![t] = fields @@ @]

\* The call ends by raising: the locals are dropped, the outcome is kept.
Raise(t, outcome, err, ncalls) ==
    [th EXCEPT ![t] = [pc |-> "idle", outcome |-> outcome, err |-> err,
                       op |-> @.op, shard |-> @.shard, key |-> @.key,
                       count |-> @.count, ncalls |-> ncalls, calls |-> @.calls] @@ Idle]

-----------------------------------------------------------------------------
(* Entry points: argument validation *)

Enter(t) ==
    /\ th[t].pc = "idle"
    /\ env.calls > 0
    /\ env' = [env EXCEPT !.calls = @ - 1]
    /\ UNCHANGED <<shared, clock, log, enableMetrics>>

Args(t, op, shard_id, redis_key, count) ==
    [op |-> op, shard |-> shard_id, key |-> redis_key, count |-> count,
     calls |-> th[t].calls + 1] @@ Idle

\* Mutant: the counter is incremented before the shard is validated.
DistinctValidatesLate(t, shard_id, redis_key) ==
    /\ th[t].pc = "idle"
    /\ env.calls > 0
    /\ env' = [env EXCEPT !.calls = @ - 1]
    /\ IF ~ValidShard(shard_id)
       THEN /\ counter' = [counter EXCEPT ![redis_key] = @ + 1]
            /\ th' = [th EXCEPT ![t] = [outcome |-> "ValueError", err |-> "shard_id"]
                                       @@ Args(t, "distinct", shard_id, redis_key, 1)]
       ELSE /\ counter' = counter
            /\ th' = [th EXCEPT ![t] = [pc |-> "check_buffer"]
                                       @@ Args(t, "distinct", shard_id, redis_key, 1)]
    /\ UNCHANGED <<idBuffer, buffers, epochCache, clock, log, enableMetrics>>

\* distinct(): _validate_shard_id, then the buffered or the direct path
Distinct(t, shard_id, redis_key) ==
    /\ Enter(t)
    /\ th' = [th EXCEPT ![t] =
                IF ~ValidShard(shard_id)
                THEN [outcome |-> "ValueError", err |-> "shard_id"]
                     @@ Args(t, "distinct", shard_id, redis_key, 1)
                ELSE [pc |-> "check_buffer"] @@ Args(t, "distinct", shard_id, redis_key, 1)]

\* distinct_async(): _validate_shard_id, then always the direct path
DistinctAsync(t, shard_id, redis_key) ==
    /\ Enter(t)
    /\ th' = [th EXCEPT ![t] =
                IF ~ValidShard(shard_id)
                THEN [outcome |-> "ValueError", err |-> "shard_id"]
                     @@ Args(t, "distinct_async", shard_id, redis_key, 1)
                ELSE [pc |-> "incr"] @@ Args(t, "distinct_async", shard_id, redis_key, 1)]

\* Mutant: the shard is checked before the count.
BatchEntryShardFirst(t, op, count, shard_id, redis_key) ==
    IF ~ValidShard(shard_id)
    THEN [outcome |-> "ValueError", err |-> "shard_id"] @@ Args(t, op, shard_id, redis_key, count)
    ELSE IF count <= 0
    THEN [outcome |-> "ValueError", err |-> "count"] @@ Args(t, op, shard_id, redis_key, count)
    ELSE [pc |-> "incrby"] @@ Args(t, op, shard_id, redis_key, count)

\* distinct_batch() and distinct_batch_async(): the count check, then the shard check
BatchEntry(t, op, count, shard_id, redis_key) ==
    IF count <= 0
    THEN [outcome |-> "ValueError", err |-> "count"] @@ Args(t, op, shard_id, redis_key, count)
    ELSE IF ~ValidShard(shard_id)
    THEN [outcome |-> "ValueError", err |-> "shard_id"] @@ Args(t, op, shard_id, redis_key, count)
    ELSE [pc |-> "incrby"] @@ Args(t, op, shard_id, redis_key, count)

DistinctBatch(t, count, shard_id, redis_key) ==
    /\ Enter(t)
    /\ th' = [th EXCEPT ![t] = BatchEntry(t, "distinct_batch", count, shard_id, redis_key)]

DistinctBatchAsync(t, count, shard_id, redis_key) ==
    /\ Enter(t)
    /\ th' = [th EXCEPT ![t] = BatchEntry(t, "distinct_batch_async", count, shard_id, redis_key)]

-----------------------------------------------------------------------------
(* Buffering toggles *)

\* Mutant: a buffer that is already installed is kept.
EnableBufferingKeepsOld(t, buffer_size) ==
    /\ th[t].pc = "idle"
    /\ env.calls > 0
    /\ Len(buffers) < MaxBuffers
    /\ env' = [env EXCEPT !.calls = @ - 1]
    /\ buffers' = IF idBuffer = 0 THEN Append(buffers, NewBuffer(buffer_size)) ELSE buffers
    /\ idBuffer' = IF idBuffer = 0 THEN Len(buffers) + 1 ELSE idBuffer
    /\ th' = [th EXCEPT ![t] = [outcome |-> "returned"]
                               @@ Args(t, "enable_buffering", 0, "k1", 0)]
    /\ UNCHANGED <<counter, epochCache, clock, log, enableMetrics>>

\* Mutant: installing a buffer resets the counter of the default key.
EnableBufferingResetsKey(t, buffer_size) ==
    /\ th[t].pc = "idle"
    /\ env.calls > 0
    /\ Len(buffers) < MaxBuffers
    /\ env' = [env EXCEPT !.calls = @ - 1]
    /\ buffers' = Append(buffers, NewBuffer(buffer_size))
    /\ idBuffer' = Len(buffers) + 1
    /\ counter' = [counter EXCEPT !["k1"] = 0]
    /\ th' = [th EXCEPT ![t] = [outcome |-> "returned"]
                               @@ Args(t, "enable_buffering", 0, "k1", 0)]
    /\ UNCHANGED <<epochCache, clock, log, enableMetrics>>

EnableBuffering(t, buffer_size) ==
    /\ th[t].pc = "idle"
    /\ env.calls > 0
    /\ Len(buffers) < MaxBuffers
    /\ env' = [env EXCEPT !.calls = @ - 1]
    /\ buffers' = Append(buffers, NewBuffer(buffer_size))
    /\ idBuffer' = Len(buffers) + 1
    /\ th' = [th EXCEPT ![t] = [outcome |-> "returned"]
                               @@ Args(t, "enable_buffering", 0, "k1", 0)]
    /\ UNCHANGED <<counter, epochCache, clock, log, enableMetrics>>

DisableBuffering(t) ==
    /\ th[t].pc = "idle"
    /\ env.calls > 0
    /\ env' = [env EXCEPT !.calls = @ - 1]
    /\ idBuffer' = 0
    /\ th' = [th EXCEPT ![t] = [outcome |-> "returned"]
                               @@ Args(t, "disable_buffering", 0, "k1", 0)]
    /\ UNCHANGED <<counter, buffers, epochCache, clock, log, enableMetrics>>

\* enable_metrics(enabled): _enable_metrics = enabled
EnableMetrics(t, enabled) ==
    /\ th[t].pc = "idle"
    /\ env.calls > 0
    /\ env' = [env EXCEPT !.calls = @ - 1]
    /\ enableMetrics' = enabled
    /\ th' = [th EXCEPT ![t] = [outcome |-> "returned"]
                               @@ Args(t, "enable_metrics", 0, "k1", 0)]
    /\ UNCHANGED <<shared, clock, log>>

-----------------------------------------------------------------------------
(* Obtaining the counter value *)

\* distinct(): if _id_buffer is not None
CheckBuffer(t) ==
    /\ th[t].pc = "check_buffer"
    /\ th' = Set(t, [pc |-> IF idBuffer # 0 THEN "load_buffer" ELSE "incr"])
    /\ UNCHANGED <<shared, clock, log, env, enableMetrics>>

\* Mutant: the direct increment is made before the global is read a second time.
LoadBufferAfterIncr(t) ==
    /\ th[t].pc = "load_buffer"
    /\ IF idBuffer = 0
       THEN /\ counter' = [counter EXCEPT ![th[t].key] = @ + 1]
            /\ th' = [Raise(t, "AttributeError", "NoneType", th[t].ncalls + 1)
                         EXCEPT ![t].inc = 1]
       ELSE /\ counter' = counter
            /\ th' = Set(t, [pc |-> "acquire", buf |-> idBuffer])
    /\ UNCHANGED <<idBuffer, buffers, epochCache, clock, log, env, enableMetrics>>

\* distinct(): _id_buffer.get_next_id(...), the global is read a second time
LoadBuffer(t) ==
    /\ th[t].pc = "load_buffer"
    /\ th' = IF idBuffer = 0
             THEN Raise(t, "AttributeError", "NoneType", th[t].ncalls)
             ELSE Set(t, [pc |-> "acquire", buf |-> idBuffer])
    /\ UNCHANGED <<shared, clock, log, env, enableMetrics>>

\* Mutant: the critical section is entered without waiting for the lock.
AcquireNoLock(t) ==
    /\ th[t].pc = "acquire"
    /\ buffers' = [buffers EXCEPT ![th[t].buf].lock = t]
    /\ th' = Set(t, [pc |-> "critical"])
    /\ UNCHANGED <<counter, idBuffer, epochCache, clock, log, env, enableMetrics>>

\* IDBuffer.get_next_id: with self.lock
Acquire(t) ==
    /\ th[t].pc = "acquire"
    /\ buffers[th[t].buf].lock = "free"
    /\ buffers' = [buffers EXCEPT ![th[t].buf].lock = t]
    /\ th' = Set(t, [pc |-> "critical"])
    /\ UNCHANGED <<counter, idBuffer, epochCache, clock, log, env, enableMetrics>>

\* Mutant: the refill comes two allocations late.
NeedsRefillLate(b) == b.current > b.max + 1

\* IDBuffer.get_next_id: if self.current >= self.max
NeedsRefill(b) == b.current >= b.max

\* Mutant: the refilled buffer starts one value below the range it reserved.
RefilledOneBelow(b, new_total) ==
    [b EXCEPT !.max = new_total, !.current = new_total - b.buffer_size]

\* IDBuffer.get_next_id: the buffer after a refill that returned new_total
Refilled(b, new_total) ==
    [b EXCEPT !.max = new_total, !.current = new_total - b.buffer_size + 1]

\* IDBuffer.get_next_id: the body of the critical section, the lock released at its end
GetNextId(t) ==
    /\ th[t].pc = "critical"
    /\ LET i == th[t].buf
           b == buffers[i]
           k == th[t].key
       IN IF NeedsRefill(b)
          THEN LET r == Refilled(b, counter[k] + b.buffer_size)
               IN /\ counter' = [counter EXCEPT ![k] = @ + b.buffer_size]
                  /\ buffers' = [buffers EXCEPT ![i] =
                                   [r EXCEPT !.current = @ + 1, !.lock = "free"]]
                  /\ th' = Set(t, [pc |-> "time", new_id |-> r.current,
                                   ncalls |-> th[t].ncalls + 1,
                                   inc |-> b.buffer_size])
          ELSE /\ buffers' = [buffers EXCEPT ![i] =
                                [b EXCEPT !.current = @ + 1, !.lock = "free"]]
               /\ th' = Set(t, [pc |-> "time", new_id |-> b.current])
               /\ UNCHANGED counter
    /\ UNCHANGED <<idBuffer, epochCache, clock, log, env, enableMetrics>>

\* IDBuffer.get_next_id, statement by statement: if self.current >= self.max
CheckRefill(t) ==
    /\ th[t].pc = "critical"
    /\ th' = Set(t, [pc |-> IF NeedsRefill(buffers[th[t].buf]) THEN "refill" ELSE "take"])
    /\ UNCHANGED <<shared, clock, log, env, enableMetrics>>

\* IDBuffer.get_next_id, statement by statement: self.max = incrby(...) and
\* self.current = self.max - self.buffer_size + 1
RefillBuffer(t) ==
    /\ th[t].pc = "refill"
    /\ LET i == th[t].buf
           b == buffers[i]
           k == th[t].key
       IN /\ counter' = [counter EXCEPT ![k] = @ + b.buffer_size]
          /\ buffers' = [buffers EXCEPT ![i] = Refilled(b, counter[k] + b.buffer_size)]
          /\ th' = Set(t, [pc |-> "take", ncalls |-> th[t].ncalls + 1,
                           inc |-> b.buffer_size])
    /\ UNCHANGED <<idBuffer, epochCache, clock, log, env, enableMetrics>>

\* IDBuffer.get_next_id, statement by statement: new_id = self.current and
\* self.current += 1, the lock released on leaving the with block
TakeNext(t) ==
    /\ th[t].pc = "take"
    /\ LET i == th[t].buf
           b == buffers[i]
       IN /\ buffers' = [buffers EXCEPT ![i] = [b EXCEPT !.current = @ + 1, !.lock = "free"]]
          /\ th' = Set(t, [pc |-> "time", new_id |-> b.current])
    /\ UNCHANGED <<counter, idBuffer, epochCache, clock, log, env, enableMetrics>>

\* Mutant: the lock is still held when the error leaves get_next_id.
RefillFailsKeepsLock(t) ==
    /\ th[t].pc = "critical"
    /\ NeedsRefill(buffers[th[t].buf])
    /\ env.fails > 0
    /\ env' = [env EXCEPT !.fails = @ - 1]
    /\ \E kind \in BackendErrors :
          th' = [Raise(t, "RuntimeError", kind, th[t].ncalls + 1)
                    EXCEPT ![t].buf = th[t].buf]
    /\ UNCHANGED <<counter, idBuffer, buffers, epochCache, clock, log, enableMetrics>>

\* IDBuffer.get_next_id: incrby raises; the with statement releases the lock and
\* distinct() turns the ConnectionError or TimeoutError into RuntimeError. The
\* buffer the call failed in stays on record in buf.
RefillFails(t) ==
    /\ th[t].pc = "critical"
    /\ NeedsRefill(buffers[th[t].buf])
    /\ env.fails > 0
    /\ env' = [env EXCEPT !.fails = @ - 1]
    /\ buffers' = [buffers EXCEPT ![th[t].buf].lock = "free"]
    /\ \E kind \in BackendErrors :
          th' = [Raise(t, "RuntimeError", kind, th[t].ncalls + 1)
                    EXCEPT ![t].buf = th[t].buf]
    /\ UNCHANGED <<counter, idBuffer, epochCache, clock, log, enableMetrics>>

\* Mutant: the increment is read but not stored (a lost update).
IncrLost(t) ==
    /\ th[t].pc = "incr"
    /\ th' = Set(t, [pc |-> "time", new_id |-> counter[th[t].key] + 1,
                     ncalls |-> th[t].ncalls + 1])
    /\ UNCHANGED <<shared, clock, log, env, enableMetrics>>

\* distinct(): client.incr(redis_key); distinct_async(): await client.incr(redis_key)
Incr(t) ==
    /\ th[t].pc = "incr"
    /\ counter' = [counter EXCEPT ![th[t].key] = @ + 1]
    /\ th' = Set(t, [pc |-> "time", new_id |-> counter[th[t].key] + 1,
                     ncalls |-> th[t].ncalls + 1, inc |-> 1])
    /\ UNCHANGED <<idBuffer, buffers, epochCache, clock, log, env, enableMetrics>>

\* Mutant: a timeout of the backend is not turned into RuntimeError.
BackendFailsTimeoutEscapes(t) ==
    /\ th[t].pc \in {"incr", "incrby"}
    /\ env.fails > 0
    /\ env' = [env EXCEPT !.fails = @ - 1]
    /\ \E kind \in BackendErrors :
          th' = Raise(t, IF kind = "TimeoutError" THEN kind ELSE "RuntimeError", kind,
                      th[t].ncalls + 1)
    /\ UNCHANGED <<shared, clock, log, enableMetrics>>

\* The backend call raises redis.ConnectionError or redis.TimeoutError before the
\* backend has executed the command; the entry point turns either into RuntimeError
\* with the error's message.
BackendFails(t) ==
    /\ th[t].pc \in {"incr", "incrby"}
    /\ env.fails > 0
    /\ env' = [env EXCEPT !.fails = @ - 1]
    /\ \E kind \in BackendErrors : th' = Raise(t, "RuntimeError", kind, th[t].ncalls + 1)
    /\ UNCHANGED <<shared, clock, log, enableMetrics>>

\* The amount the backend call caller t is about to make adds to the counter.
Amount(t) ==
    CASE th[t].pc = "incr" -> 1
      [] th[t].pc = "incrby" -> th[t].count
      [] th[t].pc = "critical" -> buffers[th[t].buf].buffer_size

\* The backend executes INCR or INCRBY and its reply does not reach the client
\* (socket timeout, connection lost): the client raises redis.TimeoutError or
\* redis.ConnectionError, which the entry point turns into RuntimeError. In
\* get_next_id the assignment to self.max is not reached and the lock is released.
ReplyLost(t) ==
    /\ \/ th[t].pc \in {"incr", "incrby"}
       \/ th[t].pc = "critical" /\ NeedsRefill(buffers[th[t].buf])
    /\ env.fails > 0
    /\ env' = [env EXCEPT !.fails = @ - 1]
    /\ counter' = [counter EXCEPT ![th[t].key] = @ + Amount(t)]
    /\ buffers' = IF th[t].pc = "critical"
                  THEN [buffers EXCEPT ![th[t].buf].lock = "free"]
                  ELSE buffers
    /\ \E kind \in BackendErrors :
          th' = [Raise(t, "RuntimeError", kind, th[t].ncalls + 1)
                    EXCEPT ![t].inc = Amount(t), ![t].buf = th[t].buf]
    /\ UNCHANGED <<idBuffer, epochCache, clock, log, enableMetrics>>

\* Mutant: the batch also consumes count values of the installed buffer.
IncrByAdvancesBuffer(t) ==
    /\ th[t].pc = "incrby"
    /\ counter' = [counter EXCEPT ![th[t].key] = @ + th[t].count]
    /\ buffers' = IF idBuffer = 0 THEN buffers
                  ELSE [buffers EXCEPT ![idBuffer].current = @ + th[t].count]
    /\ th' = Set(t, [pc |-> "time", new_id |-> counter[th[t].key] + th[t].count,
                     ncalls |-> th[t].ncalls + 1, inc |-> th[t].count])
    /\ UNCHANGED <<idBuffer, epochCache, clock, log, env, enableMetrics>>

\* distinct_batch(), distinct_batch_async(): max_id = client.incrby(redis_key, count)
IncrBy(t) ==
    /\ th[t].pc = "incrby"
    /\ counter' = [counter EXCEPT ![th[t].key] = @ + th[t].count]
    /\ th' = Set(t, [pc |-> "time", new_id |-> counter[th[t].key] + th[t].count,
                     ncalls |-> th[t].ncalls + 1, inc |-> th[t].count])
    /\ UNCHANGED <<idBuffer, buffers, epochCache, clock, log, env, enableMetrics>>

-----------------------------------------------------------------------------
(* Time stamp and composition *)

\* epoch = int(time.time() * 1000)
ReadTime(t) ==
    /\ th[t].pc = "time"
    /\ th' = Set(t, [pc |-> "today", epoch |-> clock])
    /\ UNCHANGED <<shared, clock, log, env, enableMetrics>>

\* _get_epoch_base: current_year = date.today().year
Today(t) ==
    /\ th[t].pc = "today"
    /\ th' = Set(t, [pc |-> "cache", year |-> YearOf(clock)])
    /\ UNCHANGED <<shared, clock, log, env, enableMetrics>>

\* Mutant: the cache is filled once and never replaced.
CacheCheckNeverReplaces(t) ==
    /\ th[t].pc = "cache"
    /\ epochCache' = IF epochCache = <<>>
                     THEN <<th[t].year, YearStartMs(th[t].year)>>
                     ELSE epochCache
    /\ th' = Set(t, [pc |-> "return"])
    /\ UNCHANGED <<counter, idBuffer, buffers, clock, log, env, enableMetrics>>

\* Mutant: the cache is recomputed by every call, from the time of the call.
CacheCheckStoresNow(t) ==
    /\ th[t].pc = "cache"
    /\ epochCache' = <<th[t].year, th[t].epoch>>
    /\ th' = Set(t, [pc |-> "return"])
    /\ UNCHANGED <<counter, idBuffer, buffers, clock, log, env, enableMetrics>>

\* _get_epoch_base: the cache is replaced when it is None or holds another year
CacheCheck(t) ==
    /\ th[t].pc = "cache"
    /\ epochCache' = IF epochCache = <<>> \/ epochCache[1] # th[t].year
                     THEN <<th[t].year, YearStartMs(th[t].year)>>
                     ELSE epochCache
    /\ th' = Set(t, [pc |-> "return"])
    /\ UNCHANGED <<counter, idBuffer, buffers, clock, log, env, enableMetrics>>

\* _get_epoch_base, statement by statement: if _epoch_base_cache is None or
\* _epoch_base_cache[0] != current_year
CacheTest(t) ==
    /\ th[t].pc = "cache"
    /\ th' = Set(t, [pc |-> IF epochCache = <<>> \/ epochCache[1] # th[t].year
                            THEN "cache_write" ELSE "return"])
    /\ UNCHANGED <<shared, clock, log, env, enableMetrics>>

\* Mutant: the value cached is the time of the call, not the start of its year.
CacheWriteStoresNow(t) ==
    /\ th[t].pc = "cache_write"
    /\ epochCache' = <<th[t].year, th[t].epoch>>
    /\ th' = Set(t, [pc |-> "return"])
    /\ UNCHANGED <<counter, idBuffer, buffers, clock, log, env, enableMetrics>>

\* _get_epoch_base, statement by statement: epoch = int(datetime(current_year, 1,
\* 1).timestamp() * 1000) and _epoch_base_cache = (current_year, epoch)
CacheWrite(t) ==
    /\ th[t].pc = "cache_write"
    /\ epochCache' = <<th[t].year, YearStartMs(th[t].year)>>
    /\ th' = Set(t, [pc |-> "return"])
    /\ UNCHANGED <<counter, idBuffer, buffers, clock, log, env, enableMetrics>>

\* Mutant: the batch starts one value below the range it reserved.
StartIdOneBelow(op, new_id, count) ==
    IF op \in BatchOps THEN new_id - count ELSE new_id

\* The first counter value of the call: new_id, or start_id = max_id - count + 1
StartId(op, new_id, count) ==
    IF op \in BatchOps THEN new_id - count + 1 ELSE new_id

\* Mutant: the last identifier of the call is left out.
IdentifiersOneShort(time_delta, shard_id, start_id, count) ==
    [i \in 1..(count - 1) |-> Compose(time_delta, shard_id, start_id + (i - 1))]

\* Mutant: the time is taken anew for every identifier of the call.
IdentifiersOwnTime(time_delta, shard_id, start_id, count) ==
    [i \in 1..count |-> Compose(time_delta + (i - 1), shard_id, start_id + (i - 1))]

\* The identifiers of one call: one for distinct(), count of them for a batch
Identifiers(time_delta, shard_id, start_id, count) ==
    [i \in 1..count |-> Compose(time_delta, shard_id, start_id + (i - 1))]

\* _get_epoch_base: return _epoch_base_cache[1]; then the identifiers are composed
Return(t) ==
    /\ th[t].pc = "return"
    /\ LET c == th[t]
           epoch_base == epochCache[2]
           start_id == StartId(c.op, c.new_id, c.count)
           ids == Identifiers(c.epoch - epoch_base, c.shard, start_id, c.count)
       IN /\ th' = [th EXCEPT ![t] =
                      [outcome |-> "returned", ids |-> ids, op |-> c.op,
                       shard |-> c.shard, key |-> c.key, count |-> c.count,
                       ncalls |-> c.ncalls, calls |-> c.calls, inc |-> c.inc] @@ Idle]
          /\ log' = Append(log, [t |-> t, op |-> c.op, shard |-> c.shard, key |-> c.key,
                                 first |-> start_id, n |-> c.count, buf |-> c.buf,
                                 epoch |-> c.epoch, year |-> c.year,
                                 base |-> epoch_base, ids |-> th'[t].ids,
                                 got |-> c.new_id, ncalls |-> c.ncalls,
                                 inc |-> c.inc])
    /\ UNCHANGED <<shared, clock, env, enableMetrics>>

\* The wall clock advances by one millisecond.
Tick ==
    /\ env.ticks > 0
    /\ env' = [env EXCEPT !.ticks = @ - 1]
    /\ clock' = clock + 1
    /\ UNCHANGED <<shared, th, log, enableMetrics>>

-----------------------------------------------------------------------------
(* Specifications *)

\* What every successful call goes through after it has its counter value.
Finish(t) == ReadTime(t) \/ Today(t) \/ CacheCheck(t) \/ Return(t)

\* The buffered path of distinct().
Buffered(t) == LoadBuffer(t) \/ Acquire(t) \/ GetNextId(t)

\* Concurrent callers of one shard: unbuffered, buffered and batch allocation,
\* buffering toggled by any caller at any time.
Next ==
    \/ \E t \in Threads : Distinct(t, DefaultShard, "k1")
    \/ \E t \in Threads : DistinctBatch(t, BatchCount, DefaultShard, "k1")
    \/ \E t \in Threads, n \in BufferSizes : EnableBuffering(t, n)
    \/ \E t \in Threads : DisableBuffering(t)
    \/ \E t \in Threads : CheckBuffer(t) \/ Buffered(t) \/ Incr(t) \/ IncrBy(t)
    \/ \E t \in Threads : Finish(t)

Spec == Init /\ [][Next]_vars

\* One caller on one key and one shard, the clock running across the new year.
NextSeq ==
    \/ Distinct("t1", DefaultShard, "k1")
    \/ DistinctAsync("t1", DefaultShard, "k1")
    \/ EnableBuffering("t1", SeqBufferSize)
    \/ DisableBuffering("t1")
    \/ CheckBuffer("t1") \/ Buffered("t1") \/ Incr("t1")
    \/ Finish("t1")
    \/ Tick

SpecSeq == InitSeq /\ [][NextSeq]_vars

\* One caller passing valid and invalid arguments to the four entry points, with
\* buffering on or off and a backend that may fail.
NextArgs ==
    \/ \E s \in ShardInputs : Distinct("t1", s, "k1")
    \/ \E s \in ShardInputs : DistinctAsync("t1", s, "k1")
    \/ \E n \in CountInputs, s \in ShardInputs : DistinctBatch("t1", n, s, "k1")
    \/ \E n \in CountInputs, s \in ShardInputs : DistinctBatchAsync("t1", n, s, "k1")
    \/ \E n \in BufferSizes : EnableBuffering("t1", n)
    \/ DisableBuffering("t1")
    \/ CheckBuffer("t1") \/ Buffered("t1") \/ Incr("t1") \/ IncrBy("t1")
    \/ RefillFails("t1") \/ BackendFails("t1")
    \/ Finish("t1")

SpecArgs == InitArgs /\ [][NextArgs]_vars

\* One caller of distinct_batch() and distinct_batch_async(), the backend failing
\* at times, the clock advancing.
NextBatch ==
    \/ \E n \in BatchCounts, s \in BatchShards : DistinctBatch("t1", n, s, "k1")
    \/ \E n \in BatchCounts, s \in BatchShards : DistinctBatchAsync("t1", n, s, "k1")
    \/ IncrBy("t1")
    \/ BackendFails("t1")
    \/ Finish("t1")
    \/ Tick

SpecBatch == InitBatch /\ [][NextBatch]_vars

\* One caller that enables buffering and allocates with distinct().
NextBuf ==
    \/ \E n \in TestBufferSizes : EnableBuffering("t1", n)
    \/ Distinct("t1", DefaultShard, "k1")
    \/ CheckBuffer("t1") \/ Buffered("t1") \/ Incr("t1")
    \/ Finish("t1")

SpecBuf == InitBuf /\ [][NextBuf]_vars

\* Concurrent callers of the four entry points, buffering toggled by any caller at
\* any time, the backend failing before or after it has executed a command.
NextFail ==
    \/ \E t \in Threads : Distinct(t, DefaultShard, "k1")
    \/ \E t \in Threads : DistinctAsync(t, DefaultShard, "k1")
    \/ \E t \in Threads : DistinctBatch(t, BatchCount, DefaultShard, "k1")
    \/ \E t \in Threads : DistinctBatchAsync(t, BatchCount, DefaultShard, "k1")
    \/ \E t \in Threads : EnableBuffering(t, SeqBufferSize)
    \/ \E t \in Threads : DisableBuffering(t)
    \/ \E t \in Threads : CheckBuffer(t) \/ Buffered(t) \/ Incr(t) \/ IncrBy(t)
    \/ \E t \in Threads : RefillFails(t) \/ BackendFails(t) \/ ReplyLost(t)
    \/ \E t \in Threads : Finish(t)

SpecFail == InitFail /\ [][NextFail]_vars

\* A task that was resumed with the backend's response and has not returned yet.
Computing(t) == th[t].pc \in {"today", "cache", "return"}

\* The event loop runs one task at a time and takes it back only at an await: the
\* one await of an asynchronous entry point is the backend call, so task t can be
\* started or resumed only while no other task is between its response and its
\* return.
LoopFree(t) == \A u \in Threads \ {t} : ~Computing(u)

\* Tasks of one event loop (asyncio.gather) calling distinct_async() and
\* distinct_batch_async() on one key; the backend serves the requests in any order
\* and the tasks are resumed in any order.
NextAsync ==
    \/ \E t \in Threads : LoopFree(t) /\ DistinctAsync(t, DefaultShard, "k1")
    \/ \E t \in Threads : LoopFree(t) /\ DistinctBatchAsync(t, BatchCount, DefaultShard, "k1")
    \/ \E t \in Threads : Incr(t) \/ IncrBy(t)
    \/ \E t \in Threads : LoopFree(t) /\ Finish(t)
    \/ Tick

SpecAsync == InitAsync /\ [][NextAsync]_vars

\* Threads calling distinct() with buffering enabled, get_next_id taken statement
\* by statement.
NextLock ==
    \/ \E t \in Threads : EnableBuffering(t, SeqBufferSize)
    \/ \E t \in Threads : Distinct(t, DefaultShard, "k1")
    \/ \E t \in Threads : CheckBuffer(t) \/ LoadBuffer(t) \/ Incr(t)
    \/ \E t \in Threads : Acquire(t)
    \/ \E t \in Threads : CheckRefill(t) \/ RefillBuffer(t) \/ TakeNext(t)
    \/ \E t \in Threads : Finish(t)

SpecLock == InitLock /\ [][NextLock]_vars

\* Threads calling distinct() unbuffered, _get_epoch_base taken statement by
\* statement, the clock running across the new year.
NextEpoch ==
    \/ \E t \in Threads : Distinct(t, DefaultShard, "k1")
    \/ \E t \in Threads : CheckBuffer(t) \/ Incr(t)
    \/ \E t \in Threads : ReadTime(t) \/ Today(t)
    \/ \E t \in Threads : CacheTest(t) \/ CacheWrite(t)
    \/ \E t \in Threads : Return(t)
    \/ Tick

SpecEpoch == InitEpoch /\ [][NextEpoch]_vars

\* One caller of distinct() and distinct_batch() on two counter keys, with valid
\* and invalid arguments, buffering and metrics switched on and off.
NextFrame ==
    \/ \E k \in Keys : Distinct("t1", DefaultShard, k)
    \/ Distinct("t1", SHARD_LIMIT, "k1")
    \/ \E n \in CountInputs : DistinctBatch("t1", n, DefaultShard, "k1")
    \/ EnableBuffering("t1", SeqBufferSize)
    \/ DisableBuffering("t1")
    \/ \E enabled \in BOOLEAN : EnableMetrics("t1", enabled)
    \/ CheckBuffer("t1") \/ Buffered("t1") \/ Incr("t1") \/ IncrBy("t1")
    \/ Finish("t1")

SpecFrame == InitFrame /\ [][NextFrame]_vars

\* One caller that enables buffering with any size enable_buffering() accepts and
\* allocates with distinct().
NextSizes ==
    \/ \E n \in AcceptedSizes : EnableBuffering("t1", n)
    \/ Distinct("t1", DefaultShard, "k1")
    \/ CheckBuffer("t1") \/ Buffered("t1") \/ Incr("t1")
    \/ Finish("t1")

SpecSizes == InitSizes /\ [][NextSizes]_vars

\* One caller composing identifiers for the least, the default and the greatest
\* shard, single and in batches, at different times of the year.
NextCompose ==
    \/ \E s \in ComposeShards : Distinct("t1", s, "k1")
    \/ \E s \in ComposeShards : DistinctBatch("t1", BatchCount, s, "k1")
    \/ CheckBuffer("t1") \/ Incr("t1") \/ IncrBy("t1")
    \/ Finish("t1")
    \/ Tick

SpecCompose == InitCompose /\ [][NextCompose]_vars

-----------------------------------------------------------------------------
(* Properties *)

LogIdx == 1..Len(log)

\* The last counter value a completed call consumed (its first is e.first).
LastValue(e) == e.first + e.n - 1

TimeDelta(e) == e.epoch - e.base

\* The identifiers of completed call e, as a set.
IdsOf(e) == {e.ids[i] : i \in 1..Len(e.ids)}

\* Every call made so far, completed or running, is a distinct() call.
OnlyDistinctCalls ==
    /\ \A i \in LogIdx : log[i].op = "distinct"
    /\ \A t \in Threads : th[t].op \in {"none", "distinct"} \cup AdminOps

\* C1: on one counter key, whatever the interleaving of unbuffered distinct(),
\* buffered distinct(), distinct_batch() and enable/disable_buffering() (with
\* positive buffer sizes), no counter value is consumed by two identifiers: the
\* ranges of counter values of any two completed calls are disjoint.
C1_CounterValuesDistinct ==
    \A i, j \in LogIdx :
        (i < j /\ log[i].key = log[j].key) =>
            \/ LastValue(log[i]) < log[j].first
            \/ LastValue(log[j]) < log[i].first

\* C1 witness: an unbuffered call, a buffered call of another caller and a batch
\* have completed on the key.
C1_Witness ==
    /\ \E i, j, k \in LogIdx :
          /\ log[i].t # log[j].t
          /\ log[i].op = "distinct" /\ log[i].buf = 0
          /\ log[j].op = "distinct" /\ log[j].buf # 0
          /\ log[k].op = "distinct_batch"
          /\ log[i].key = log[j].key /\ log[j].key = log[k].key

\* No two completed calls returned the same identifier.
NoDuplicateIds ==
    \A i, j \in LogIdx : i < j => IdsOf(log[i]) \cap IdsOf(log[j]) = {}

\* C2 as stated: concurrent callers using only distinct() on one shared key never
\* get a duplicate identifier, whether buffering is enabled, disabled or toggled
\* during the run.
C2_Original == OnlyDistinctCalls => NoDuplicateIds

\* C2 as amended: concurrent callers using only distinct() on one shared key, every
\* call served directly by the backend (buffering disabled throughout the run),
\* never get a duplicate identifier.
C2_NoDuplicatesUnbuffered ==
    (OnlyDistinctCalls /\ \A i \in LogIdx : log[i].buf = 0) => NoDuplicateIds

\* C2 witness: both callers completed unbuffered distinct() calls on the shared key,
\* one consuming 1023 and the other 1024 (the sequence component wraps between them).
C2_Witness ==
    /\ OnlyDistinctCalls
    /\ \A i \in LogIdx : log[i].buf = 0
    /\ \E i, j \in LogIdx :
          /\ log[i].t # log[j].t
          /\ log[i].first = 1023
          /\ log[j].first = 1024

-----------------------------------------------------------------------------
(* Properties of one caller's successive calls (SpecSeq: log is in call order) *)

\* The call read its time and its epoch base in one calendar year.
InOneYear(e) == e.base = YearStartMs(YearOf(e.epoch))

\* Both calls ran in the same calendar year.
SameYear(a, b) == InOneYear(a) /\ InOneYear(b) /\ a.base = b.base

\* Both calls fall in the same millisecond.
SameMs(a, b) == a.epoch = b.epoch /\ a.base = b.base

\* The first j calls are unbuffered distinct() calls of one shard in one millisecond.
UnbufferedRun(j) ==
    \A m \in 1..j :
        /\ log[m].op = "distinct" /\ log[m].buf = 0
        /\ log[m].shard = log[j].shard /\ log[m].key = log[j].key
        /\ SameMs(log[m], log[j])

\* C3 as stated: for a fresh key, N <= 1024 sequential unbuffered distinct() calls
\* of one shard within one millisecond return strictly increasing identifiers. The
\* m-th call on a fresh key consumes counter value m, so the calls are those whose
\* counter value is at most 1024.
C3_Original ==
    \A j \in LogIdx :
        (UnbufferedRun(j) /\ log[j].first <= SEQ_MOD) =>
            \A i \in 1..(j - 1) : log[i].ids[1] < log[j].ids[1]

\* C3 as amended: the identifiers are pairwise distinct for N <= 1024 and strictly
\* increasing in call order for N <= 1023 (the 1024th call has sequence component 0).
C3_DistinctTo1024_IncreasingTo1023 ==
    \A j \in LogIdx :
        UnbufferedRun(j) =>
            /\ log[j].first <= SEQ_MOD =>
                  \A i \in 1..(j - 1) : log[i].ids[1] # log[j].ids[1]
            /\ log[j].first <= SEQ_MOD - 1 =>
                  \A i \in 1..(j - 1) : log[i].ids[1] < log[j].ids[1]

\* C3 witness: three unbuffered calls in one millisecond consumed 1022, 1023, 1024.
C3_Witness ==
    /\ Len(log) >= 3
    /\ UnbufferedRun(3)
    /\ log[1].first = 1022 /\ log[2].first = 1023 /\ log[3].first = 1024

\* C4 as stated: of two distinct() calls on one shard, the one whose wall-clock
\* time is at least 1 ms later returns the greater identifier, whatever the counter
\* values and the calendar years.
C4_Original ==
    \A i, j \in LogIdx :
        (/\ log[i].op = "distinct" /\ log[j].op = "distinct"
         /\ log[i].shard = log[j].shard
         /\ log[j].epoch >= log[i].epoch + 1) =>
            log[j].ids[1] > log[i].ids[1]

\* C4 as amended: the same, for two calls that run in the same calendar year.
C4_LaterIsGreaterInOneYear ==
    \A i, j \in LogIdx :
        (/\ log[i].op = "distinct" /\ log[j].op = "distinct"
         /\ log[i].shard = log[j].shard
         /\ log[j].epoch >= log[i].epoch + 1
         /\ SameYear(log[i], log[j])) =>
            log[j].ids[1] > log[i].ids[1]

\* C4 witness: two calls of one year, the later one with the smaller sequence
\* component (the counter went from 1023 to 1024).
C4_Witness ==
    \E i, j \in LogIdx :
        /\ log[i].op = "distinct" /\ log[j].op = "distinct"
        /\ log[i].shard = log[j].shard
        /\ log[j].epoch >= log[i].epoch + 1
        /\ SameYear(log[i], log[j])
        /\ log[i].first = 1023 /\ log[j].first = 1024

\* Call j is the next call of the same entry point after call i, on the same shard
\* and counter key.
Successive(i, j) ==
    /\ i < j
    /\ log[i].op = log[j].op
    /\ log[i].shard = log[j].shard
    /\ log[i].key = log[j].key
    /\ \A m \in (i + 1)..(j - 1) : log[m].op # log[i].op

\* C5 as stated: each distinct() call returns an identifier greater than the
\* preceding distinct() call's, and likewise for distinct_async(), from any counter
\* value, the clock never going backward.
C5_Original ==
    \A i, j \in LogIdx : Successive(i, j) => log[j].ids[1] > log[i].ids[1]

\* The counter crossed a multiple of 1024 between two calls of one millisecond.
WrapsInOneMs(a, b) == a.epoch = b.epoch /\ a.first \div SEQ_MOD < b.first \div SEQ_MOD

\* C5 as amended: each call returns an identifier greater than the preceding
\* call's when both run in one calendar year, unless both fall in one millisecond
\* and the counter crossed a multiple of 1024 between them.
C5_IncreasingUnlessWrap ==
    \A i, j \in LogIdx :
        (/\ Successive(i, j)
         /\ SameYear(log[i], log[j])
         /\ ~WrapsInOneMs(log[i], log[j])) =>
            log[j].ids[1] > log[i].ids[1]

\* C5 witness: in one millisecond, two buffered distinct() calls with a
\* distinct_async() call between them.
C5_Witness ==
    /\ Len(log) >= 3
    /\ log[1].op = "distinct" /\ log[1].buf # 0
    /\ log[2].op = "distinct_async"
    /\ log[3].op = "distinct" /\ log[3].buf # 0
    /\ SameMs(log[1], log[3]) /\ InOneYear(log[1])
    /\ ~WrapsInOneMs(log[1], log[3])

-----------------------------------------------------------------------------
(* Properties of the arguments' validation (SpecArgs) *)

\* C7: two allocation calls on one counter key with different valid shard ids and
\* the same time_delta never return equal identifiers, whatever their counter values.
C7_ShardsNeverCollide ==
    \A i, j \in LogIdx :
        (/\ log[i].key = log[j].key
         /\ log[i].shard # log[j].shard
         /\ TimeDelta(log[i]) = TimeDelta(log[j])) =>
            IdsOf(log[i]) \cap IdsOf(log[j]) = {}

\* C7 witness: two distinct() calls with different shards, the same time_delta and
\* the same sequence component (counter values 1024 apart).
C7_Witness ==
    \E i, j \in LogIdx :
        /\ log[i].op = "distinct" /\ log[j].op = "distinct"
        /\ log[i].key = log[j].key
        /\ log[i].shard = 0 /\ log[j].shard = 8191
        /\ TimeDelta(log[i]) = TimeDelta(log[j])
        /\ log[j].first = log[i].first + 1024

\* Caller t rejected its latest call because of the shard.
ShardRejected(t) ==
    /\ th[t].op \in AllocOps
    /\ th[t].pc = "idle"
    /\ th[t].outcome = "ValueError"
    /\ th[t].err = "shard_id"

\* C8: each of the four entry points fails with ValueError for every shard_id < 0
\* and every shard_id >= 8192, and passes the shard validation for 0..8191.
C8_ShardRange ==
    \A t \in Threads :
        th[t].op \in AllocOps =>
            /\ (th[t].shard < 0 \/ th[t].shard >= 8192) =>
                  th[t].pc = "idle" /\ th[t].outcome = "ValueError"
            /\ (0 <= th[t].shard /\ th[t].shard <= 8191) => ~ShardRejected(t)

\* C8 witness: calls with shards 0 and 8191 have returned identifiers and a call
\* with shard 8192 has just been rejected.
C8_Witness ==
    /\ \E i, j \in LogIdx : log[i].shard = 0 /\ log[j].shard = 8191
    /\ \E t \in Threads : ShardRejected(t) /\ th[t].shard = 8192

\* This step is caller t entering a call (its call number goes up).
Entered(t) == th'[t].calls = th[t].calls + 1

\* C9: a call rejected for an invalid shard_id has made no backend call and changed
\* nothing: backend counter, buffer objects, installed buffer and epoch cache are
\* as before the call.
C9_RejectedShardNoEffect ==
    [][\A t \in Threads :
          (Entered(t) /\ ShardRejected(t)') =>
              (th'[t].ncalls = 0 /\ UNCHANGED shared)]_vars

\* C9 witness: a distinct() call was rejected for its shard while a buffer holding
\* reserved values was installed and the epoch cache was set.
C9_Witness ==
    \E t \in Threads :
        /\ ShardRejected(t)
        /\ th[t].op = "distinct" /\ th[t].shard = -1
        /\ idBuffer # 0 /\ buffers[idBuffer].max > 0
        /\ epochCache # <<>>

\* C10: a batch call with count <= 0 fails with ValueError on the count, also when
\* the shard is invalid too, without a backend call and with the counter unchanged.
C10_CountCheckedFirst ==
    [][\A t \in Threads :
          (Entered(t) /\ th'[t].op \in BatchOps /\ th'[t].count <= 0) =>
              /\ th'[t].pc = "idle"
              /\ th'[t].outcome = "ValueError"
              /\ th'[t].err = "count"
              /\ th'[t].ncalls = 0
              /\ UNCHANGED counter]_vars

\* C10 witness: after an allocation, distinct_batch_async() with count 0 and shard
\* 8192 failed on the count.
C10_Witness ==
    \E t \in Threads :
        /\ th[t].op = "distinct_batch_async"
        /\ th[t].count = 0 /\ th[t].shard = 8192
        /\ th[t].outcome = "ValueError" /\ th[t].err = "count"
        /\ counter["k1"] > 0

-----------------------------------------------------------------------------
(* Properties of batches (SpecBatch, and Spec for concurrent callers) *)

\* Completed call e is a batch call.
IsBatch(e) == e.op \in BatchOps

\* C11: a batch call with count N > 0 and a valid shard either returns exactly N
\* identifiers or fails and returns none, whatever the counter value it starts from.
C11_BatchAllOrNothing ==
    /\ \A i \in LogIdx : IsBatch(log[i]) => Len(log[i].ids) = log[i].n
    /\ \A t \in Threads :
          (th[t].op \in BatchOps /\ th[t].pc = "idle" /\ th[t].count > 0) =>
              \/ th[t].outcome = "returned" /\ Len(th[t].ids) = th[t].count
              \/ th[t].outcome = "RuntimeError" /\ th[t].ids = <<>>

\* C11 witness: a batch of two whose range crosses 1024 (values 1023 and 1024) has
\* returned its two identifiers.
C11_Witness ==
    \E t \in Threads :
        /\ th[t].op = "distinct_batch" /\ th[t].outcome = "returned"
        /\ th[t].count = BatchCount /\ Len(th[t].ids) = BatchCount
        /\ log[Len(log)].first = 1023

\* C12: distinct_batch(count) makes exactly one backend call; with new_total its
\* result, the i-th identifier is built from new_total - count + 1 + i (i from 0),
\* so the batch consumes the range new_total-count+1 .. new_total in ascending
\* order, and no other call on the key, concurrent or not, gets a value of it.
C12_BatchRange ==
    \A i \in LogIdx :
        log[i].op = "distinct_batch" =>
            /\ log[i].ncalls = 1
            /\ log[i].got <= counter[log[i].key]
            /\ \A k \in 1..log[i].n :
                  log[i].ids[k] =
                      TimeDelta(log[i]) * 8388608 + log[i].shard * 1024
                      + ((log[i].got - log[i].n + k) % 1024)
            /\ \A j \in LogIdx \ {i} :
                  log[j].key = log[i].key =>
                      \/ LastValue(log[j]) < log[i].got - log[i].n + 1
                      \/ log[j].first > log[i].got

\* C12 witness: a batch has returned, and calls of the other caller consumed the
\* values right below and right above the batch's range.
C12_Witness ==
    \E i, j, k \in LogIdx :
        /\ log[i].op = "distinct_batch"
        /\ log[j].t # log[i].t /\ log[k].t # log[i].t
        /\ LastValue(log[j]) = log[i].first - 1
        /\ log[k].first = log[i].got + 1

\* C13: all identifiers of one batch call carry the same time_delta (the time of
\* the one clock reading) and the same shard bits; they differ in the low 10 bits only.
C13_BatchSharesTimeAndShard ==
    \A i \in LogIdx :
        IsBatch(log[i]) =>
            \A k \in 1..Len(log[i].ids) :
                /\ log[i].ids[k] \div 8388608 = log[i].epoch - log[i].base
                /\ (log[i].ids[k] \div 1024) % 8192 = log[i].shard
                /\ log[i].ids[k] \div 1024 = log[i].ids[1] \div 1024

\* C13 witness: a batch of more than 1024 identifiers returned after the clock had
\* advanced past the time the call had read.
C13_Witness ==
    \E i \in LogIdx :
        /\ log[i].op = "distinct_batch_async"
        /\ log[i].n > 1024
        /\ clock > log[i].epoch

C15_BatchRepeatsAfter1024 ==
    \A i \in LogIdx :
        (log[i].op = "distinct_batch" /\ log[i].n > 1024) =>
            \A k \in 1..(log[i].n - 1024) : log[i].ids[k] = log[i].ids[k + 1024]

\* C15 witness: a batch of 1025 on shard 0 has returned; its first and its last
\* identifier are equal.
C15_Witness ==
    \E i \in LogIdx :
        /\ log[i].op = "distinct_batch" /\ log[i].shard = 0 /\ log[i].n = 1025
        /\ log[i].ids[1] = log[i].ids[1025]

-----------------------------------------------------------------------------
(* Properties of the composition and of the buffer *)

\* C16: every identifier distinct() returns is (time_delta << 23) | (shard_id << 10)
\* | (counter_value mod 1024), with counter_value the value the call obtained from
\* the buffer or from the increment and time_delta the time the call read minus the
\* epoch base; the three fields do not overlap, so the identifier is their sum.
C16_IdentifierLayout ==
    \A i \in LogIdx :
        log[i].op = "distinct" =>
            /\ log[i].ids = <<(log[i].epoch - log[i].base) * 8388608
                              + log[i].shard * 1024 + (log[i].got % 1024)>>
            /\ log[i].ids[1] % 1024 = log[i].got % 1024
            /\ (log[i].ids[1] \div 1024) % 8192 = log[i].shard
            /\ log[i].ids[1] \div 8388608 = log[i].epoch - log[i].base

\* C16 witness: a buffered and an unbuffered distinct() call have returned, the
\* unbuffered one with a counter value of 1024 or more and a positive time_delta.
C16_Witness ==
    \E i, j \in LogIdx :
        /\ log[i].op = "distinct" /\ log[i].buf # 0
        /\ log[j].op = "distinct" /\ log[j].buf = 0
        /\ log[j].got >= 1024
        /\ log[j].epoch > log[j].base

\* Buffer b is the only buffer there has been and every call so far was an
\* allocation it served: it is the sole consumer of its counter key.
SoleConsumer(b) ==
    /\ Len(buffers) = b /\ b = 1
    /\ \A m \in LogIdx : log[m].op = "distinct" /\ log[m].buf = b /\ log[m].key = "k1"

\* C17 as stated: the values a buffer that is the sole consumer of its key returns
\* are, in order of return, each the previous one plus 1, also across refills, for
\* every positive buffer size.
C17_Original ==
    SoleConsumer(1) =>
        \A m \in 2..Len(log) : log[m].first = log[m - 1].first + 1

\* C18 as stated: with buffer size 10 on a fresh key, of the first 15 sequential
\* distinct() calls exactly the 1st and the 11th call the backend, and the
\* identifiers have pairwise distinct sequence components.
C18_Original ==
    (SoleConsumer(1) /\ buffers[1].buffer_size = 10) =>
        \A m \in LogIdx :
            m <= 15 =>
                /\ log[m].ncalls = (IF m \in {1, 11} THEN 1 ELSE 0)
                /\ \A k \in 1..(m - 1) : log[k].ids[1] % 1024 # log[m].ids[1] % 1024

-----------------------------------------------------------------------------
(* Properties of failing calls (SpecFail) *)

\* Caller t's latest allocation call has ended.
Ended(t) == th[t].op \in AllocOps /\ th[t].pc = "idle"

\* C19: when the backend call of an allocation fails with a connection error or a
\* timeout, the call fails with RuntimeError in both cases, carrying the backend's
\* error; one backend call was attempted and no identifier is returned. RuntimeError
\* has no other cause.
C19_BackendErrorsAsRuntimeError ==
    \A t \in Threads :
        Ended(t) =>
            /\ th[t].err \in {"ConnectionError", "TimeoutError"}
                  <=> th[t].outcome = "RuntimeError"
            /\ th[t].outcome = "RuntimeError" => th[t].ncalls = 1 /\ th[t].ids = <<>>

\* C19 witness: after some call returned, a distinct_batch() call failed on a
\* timeout of the backend.
C19_Witness ==
    \E t \in Threads :
        /\ Ended(t) /\ th[t].op = "distinct_batch"
        /\ th[t].outcome = "RuntimeError" /\ th[t].err = "TimeoutError"
        /\ Len(log) > 0

\* C20 as stated: an allocation call that has ended either returned its
\* identifiers or failed without its backend call having increased the counter.
C20_Original ==
    \A t \in Threads :
        Ended(t) => th[t].outcome = "returned" \/ th[t].inc = 0

\* C20 as amended: an allocation call that has ended either returned its
\* identifiers, or failed without its backend call having increased the counter, or
\* failed with RuntimeError on a backend error (the backend may then have executed
\* the increment); a call whose backend call has returned a result goes on to return.
C20_FailsBeforeResult ==
    \A t \in Threads :
        /\ Ended(t) =>
              \/ th[t].outcome = "returned" /\ Len(th[t].ids) = th[t].count
              \/ th[t].outcome \in {"ValueError", "AttributeError"} /\ th[t].inc = 0
              \/ th[t].outcome = "RuntimeError"
                    /\ th[t].err \in {"ConnectionError", "TimeoutError"}
        /\ (th[t].pc # "idle" /\ th[t].inc > 0) =>
              th[t].pc \in {"time", "today", "cache", "return"}

\* C20 witness: a buffered distinct() call failed with RuntimeError after the
\* backend had executed its refill, while buffering was being toggled.
C20_Witness ==
    \E t \in Threads :
        /\ Ended(t) /\ th[t].op = "distinct"
        /\ th[t].outcome = "RuntimeError" /\ th[t].inc = SeqBufferSize
        /\ counter["k1"] >= SeqBufferSize
        /\ idBuffer = 0

-----------------------------------------------------------------------------
(* Properties of the buffering toggles, one caller (SpecSeq) *)

\* The sequential caller has just come back from a call of op.
JustDone(op) == th["t1"].pc = "idle" /\ th["t1"].op = op /\ th["t1"].outcome = "returned"

\* C21: enable_buffering(n) installs a fresh buffer whatever was installed; the first
\* distinct() a buffer serves refills it with increment_by(key, n); once another
\* buffer or none is installed, the values the old buffer reserved are not handed
\* out any more; with buffering disabled every distinct() makes one increment (+1)
\* and uses its result.
C21_TogglesInstallAndDiscard ==
    /\ JustDone("enable_buffering") =>
          /\ idBuffer = Len(buffers)
          /\ buffers[idBuffer].current = 0 /\ buffers[idBuffer].max = 0
          /\ \A i \in LogIdx : log[i].buf # idBuffer
    /\ JustDone("disable_buffering") => idBuffer = 0
    /\ JustDone("distinct") => log[Len(log)].buf = idBuffer
    /\ \A i \in LogIdx :
          log[i].op = "distinct" =>
              /\ (log[i].buf # 0 /\ \A j \in 1..(i - 1) : log[j].buf # log[i].buf) =>
                    /\ log[i].ncalls = 1
                    /\ log[i].inc = buffers[log[i].buf].buffer_size
              /\ log[i].buf = 0 =>
                    /\ log[i].ncalls = 1 /\ log[i].inc = 1
                    /\ log[i].ids[1] % 1024 = log[i].got % 1024
              /\ \A j \in (i + 1)..Len(log) :
                    (log[i].buf # 0 /\ log[j].op = "distinct" /\ log[j].buf # log[i].buf) =>
                        /\ log[j].first > buffers[log[i].buf].max
                        /\ \A k \in j..Len(log) :
                              log[k].op = "distinct" => log[k].buf # log[i].buf

\* C21 witness: a buffer served a call and still held reserved values, buffering
\* was enabled again and the next distinct() was served by the new buffer.
C21_Witness ==
    /\ JustDone("distinct")
    /\ \E i, j \in LogIdx :
          /\ i < j
          /\ log[i].op = "distinct" /\ log[i].buf = 1
          /\ log[j].op = "distinct" /\ log[j].buf = 2
          /\ buffers[1].current < buffers[1].max

\* C22: the asynchronous variants run the same algorithm as the synchronous ones;
\* in particular a single allocation, synchronous or asynchronous, made while a
\* buffer is installed takes its counter value from that buffer.
C22_Original ==
    \A op \in SingleOps :
        JustDone(op) => log[Len(log)].op = op /\ log[Len(log)].buf = idBuffer

-----------------------------------------------------------------------------
(* Asynchronous calls on one event loop (SpecAsync) *)

\* C23: asynchronous calls running concurrently on one event loop each receive
\* counter values no other call receives; a call that is suspended in mid-flight is
\* awaiting the backend; the sequence component of every identifier is the call's
\* own backend response mod 1024; the identifiers of all the gathered calls are
\* pairwise distinct.
C23_AsyncCallsIndependent ==
    /\ \A i, j \in LogIdx :
          i < j => \/ LastValue(log[i]) < log[j].first
                   \/ LastValue(log[j]) < log[i].first
    /\ \A t \in Threads :
          Computing(t) =>
              \A u \in Threads \ {t} : th[u].pc \in {"idle", "incr", "incrby", "time"}
    /\ \A i \in LogIdx :
          \A k \in 1..log[i].n :
              log[i].ids[k] % SEQ_MOD = (log[i].got - log[i].n + k) % SEQ_MOD
    /\ \A i, j \in LogIdx : i < j => IdsOf(log[i]) \cap IdsOf(log[j]) = {}

\* C23 witness: all the gathered calls have returned, two tasks overlapped and the
\* one the backend answered later returned first, the counter passing 1024.
C23_Witness ==
    /\ Len(log) = MaxAsyncCalls
    /\ \E i, j \in LogIdx :
          /\ i < j /\ log[i].t # log[j].t
          /\ log[i].op = "distinct_async" /\ log[j].op = "distinct_async"
          /\ log[i].got > log[j].got
    /\ \E i \in LogIdx : log[i].got >= SEQ_MOD

-----------------------------------------------------------------------------
(* The epoch base cache, one caller (SpecSeq) *)

\* Caller t is in _get_epoch_base, about to test the cache against the year it read.
AtCacheCheck(t) == th[t].pc = "cache" /\ th'[t].pc = "return"

\* _get_epoch_base of caller t returns (and the identifier is composed).
AtReturn(t) == th[t].pc = "return" /\ th'[t].pc = "idle"

\* C24: when there is no cache or the cached year differs from the year the call
\* read, _get_epoch_base recomputes the base of that year, replaces the cache with
\* (year, new value) and returns the new value, which differs from the value that
\* was cached before.
C24_RolloverRecomputes ==
    [][\A t \in Threads :
          /\ (AtCacheCheck(t) /\ (epochCache = <<>> \/ epochCache[1] # th[t].year)) =>
                /\ epochCache' = <<th[t].year, YearStartMs(th[t].year)>>
                /\ epochCache # <<>> => epochCache'[2] # epochCache[2]
          /\ (AtReturn(t) /\ (log = <<>> \/ log[Len(log)].year # th[t].year)) =>
                /\ log'[Len(log')].base = YearStartMs(th[t].year)
                /\ log # <<>> => log'[Len(log')].base # log[Len(log)].base
      ]_vars

\* C24 witness: a call returned in one year, the year changed and the next call
\* returned the base of the new year.
C24_Witness ==
    /\ JustDone("distinct")
    /\ \E i \in LogIdx :
          /\ i + 1 = Len(log)
          /\ log[i].year # log[i + 1].year
          /\ log[i + 1].base = YearStartMs(log[i + 1].year)
          /\ epochCache = <<log[i + 1].year, log[i + 1].base>>

\* C25: a call that finds the cache holding the year it read leaves the cache as it
\* is and returns the value every earlier call of that year returned; when a call
\* returns, the cache holds (the year the call read, the epoch base of that year).
C25_CachedWithinYear ==
    [][\A t \in Threads :
          /\ (AtCacheCheck(t) /\ epochCache # <<>> /\ epochCache[1] = th[t].year) =>
                epochCache' = epochCache
          /\ AtReturn(t) =>
                /\ epochCache' = <<th[t].year, YearStartMs(th[t].year)>>
                /\ log'[Len(log')].base = epochCache'[2]
                /\ \A i \in LogIdx :
                      log[i].year = th[t].year => log[i].base = log'[Len(log')].base
      ]_vars

\* C25 witness: three calls of one year have returned the same epoch base.
C25_Witness ==
    /\ Len(log) >= 3
    /\ \A i \in LogIdx : log[i].year = log[1].year /\ log[i].base = log[1].base
    /\ epochCache = <<log[1].year, log[1].base>>

-----------------------------------------------------------------------------
(* The local buffer under concurrent callers *)

BufIdx == 1..Len(buffers)

\* C26: every buffer, installed or replaced, satisfies current <= max + 1 in every
\* reachable state, under any interleaving of the callers (buffer sizes positive):
\* after construction, after a served value, and after a refill before the value
\* is served.
C26_CurrentAtMostMaxPlusOne ==
    /\ \A i \in BufIdx : buffers[i].current <= buffers[i].max + 1
    /\ \A t \in Threads :
          (th[t].pc = "critical" /\ NeedsRefill(buffers[th[t].buf])) =>
              LET b == buffers[th[t].buf]
                  r == Refilled(b, counter[th[t].key] + b.buffer_size)
              IN r.current <= r.max + 1

\* C26 witness: a buffer served both callers and stands at current = max + 1.
C26_Witness ==
    \E i \in BufIdx :
        /\ buffers[i].max > 0
        /\ buffers[i].current = buffers[i].max + 1
        /\ \E j, k \in LogIdx : log[j].buf = i /\ log[k].buf = i /\ log[j].t # log[k].t

\* C27: a buffered allocation calls the backend exactly when, at its entry into
\* the critical section, current > max, never while a reserved value is still
\* unserved (max = 0: nothing was reserved yet).
C27_Original ==
    \A t \in Threads :
        th[t].pc = "critical" =>
            LET b == buffers[th[t].buf]
            IN /\ b.current > b.max => NeedsRefill(b)
               /\ NeedsRefill(b) => (b.max = 0 \/ b.current > b.max)

\* Caller t is between the check and the increment of get_next_id on buffer i.
InCritical(t, i) == th[t].buf = i /\ th[t].pc \in {"critical", "refill", "take"}

\* C28: the check, the refill and the increment of get_next_id are one critical
\* section: at most one thread is between the check and the increment on a buffer,
\* no two calls are handed the same value, and a refill is issued only while the
\* buffer is still exhausted (one refill per exhausted range).
C28_CriticalSection ==
    /\ \A i \in BufIdx :
          \A t, u \in Threads :
              (InCritical(t, i) /\ InCritical(u, i)) => (t = u /\ buffers[i].lock = t)
    /\ \A i, j \in LogIdx : i < j => log[i].first # log[j].first
    /\ \A t \in Threads : th[t].pc = "refill" => NeedsRefill(buffers[th[t].buf])

\* C28 witness: a buffer that served both threads is exhausted again; one thread
\* has refilled it and is about to take its value while the other waits for the
\* lock.
C28_Witness ==
    \E t, u \in Threads :
        /\ th[t].pc = "take" /\ th[t].ncalls = 1
        /\ th[u].pc = "acquire" /\ th[u].buf = th[t].buf
        /\ \E i, j \in LogIdx :
              /\ log[i].t # log[j].t
              /\ log[i].buf = th[t].buf /\ log[j].buf = th[t].buf

-----------------------------------------------------------------------------
(* Failing refills (SpecFail) *)

\* C29: when the backend fails during a refill, the failing call reports the
\* backend error (as RuntimeError) and leaves the buffer's current and max as they
\* were, still exhausted, and its lock free; no lock is ever held by a caller that
\* is not inside the critical section, and every value a buffer serves lies in the
\* range its last successful refill reserved from the backend.
C29_RefillFailureLeavesBuffer ==
    [][\A t \in Threads :
          /\ (th[t].pc = "critical" /\ th'[t].pc = "idle") =>
                LET i == th[t].buf
                IN /\ buffers'[i].current = buffers[i].current
                   /\ buffers'[i].max = buffers[i].max
                   /\ buffers'[i].lock = "free"
                   /\ NeedsRefill(buffers'[i])
                   /\ th'[t].outcome = "RuntimeError"
                   /\ th'[t].err \in BackendErrors
          /\ (th[t].pc = "critical" /\ th'[t].pc = "time") =>
                LET b == buffers'[th[t].buf]
                    v == th'[t].new_id
                IN /\ b.max - b.buffer_size + 1 <= v /\ v <= b.max
                   /\ b.max <= counter'[th[t].key]
          /\ \A i \in 1..Len(buffers') :
                buffers'[i].lock = t => (th'[t].pc = "critical" /\ th'[t].buf = i)
      ]_vars

\* C29 witness: a refill of a fresh buffer failed, and a later call of the other
\* thread entered the critical section, refilled the buffer and was served.
C29_Witness ==
    \E t, u \in Threads :
        /\ t # u
        /\ th[t].pc = "idle" /\ th[t].outcome = "RuntimeError" /\ th[t].buf # 0
        /\ \E e \in LogIdx :
              /\ log[e].t = u /\ log[e].buf = th[t].buf /\ log[e].ncalls = 1
              /\ \A f \in LogIdx : log[f].buf = th[t].buf => f = e

-----------------------------------------------------------------------------
(* disable_buffering() during a distinct() call (Spec) *)

\* C30: a distinct() call during which another thread calls disable_buffering()
\* still completes by returning an identifier; it never fails because the buffer
\* was removed between the check that buffering is enabled and the use of the
\* buffer.
C30_Original ==
    \A t \in Threads :
        (Ended(t) /\ th[t].op = "distinct") => th[t].outcome = "returned"

-----------------------------------------------------------------------------
(* The time component *)

\* C31: with a clock that never goes backward, every identifier returned has a
\* time_delta >= 0 and is itself non-negative, also when the year changes between
\* the call's reading of the time and its reading of the epoch base.
C31_Original ==
    \A i \in LogIdx :
        /\ TimeDelta(log[i]) >= 0
        /\ \A k \in 1..Len(log[i].ids) : log[i].ids[k] >= 0

\* Caller t is inside _get_epoch_base and has read the year.
InEpochBase(t) == th[t].pc \in {"cache", "cache_write", "return"}

\* Every _get_epoch_base call made so far read the year the clock is still in.
AllInThisYear ==
    /\ \A i \in LogIdx : log[i].year = YearOf(clock)
    /\ \A t \in Threads : InEpochBase(t) => th[t].year = YearOf(clock)

\* C32: while all the calls of _get_epoch_base, by any number of threads in any
\* interleaving of their unlocked reads and writes, fall in one calendar year,
\* every call returns the epoch base of that year and the cache, once written,
\* is (that year, that value).
C32_BenignRaceInOneYear ==
    AllInThisYear =>
        /\ \A i \in LogIdx : log[i].base = YearStartMs(YearOf(clock))
        /\ epochCache # <<>> =>
              epochCache = <<YearOf(clock), YearStartMs(YearOf(clock))>>
        /\ \A t \in Threads : th[t].pc = "return" => epochCache # <<>>

\* C32 witness: both threads found the cache empty; one has written it and has
\* returned, the other is about to write it a second time.
C32_Witness ==
    /\ AllInThisYear
    /\ \E t, u \in Threads :
          /\ t # u
          /\ th[t].pc = "cache_write"
          /\ Len(log) = 1 /\ log[1].t = u /\ th[u].calls = 1
          /\ epochCache # <<>>

-----------------------------------------------------------------------------
(* What changes the backend counter (SpecFrame) *)

\* Caller t goes from position p to position q in this step.
Moves(t, p, q) == th[t].pc = p /\ th'[t].pc = q

\* C33: no step of the core decreases or resets the backend counter of a key; the
\* INCR of a successful unbuffered distinct() raises it by 1, the INCRBY of a
\* distinct_batch(count) by count, a buffer refill by buffer_size; a rejected
\* call, enable_buffering, disable_buffering, enable_metrics and a buffered
\* allocation served from memory leave every counter as it is.
C33_CounterOnlyGrows ==
    [][/\ \A j \in Keys : counter'[j] >= counter[j]
       /\ counter' # counter =>
             \E t \in Threads :
                 \/ Moves(t, "incr", "time") \/ Moves(t, "incrby", "time")
                 \/ Moves(t, "critical", "time") /\ NeedsRefill(buffers[th[t].buf])
       /\ \A t \in Threads :
          LET k == th[t].key
              others == \A j \in Keys \ {k} : counter'[j] = counter[j]
          IN /\ Moves(t, "incr", "time") => counter'[k] = counter[k] + 1 /\ others
             /\ Moves(t, "incrby", "time") =>
                   counter'[k] = counter[k] + th[t].count /\ others
             /\ (Moves(t, "critical", "time") /\ NeedsRefill(buffers[th[t].buf])) =>
                   /\ counter'[k] = counter[k] + buffers[th[t].buf].buffer_size
                   /\ others
             /\ (Moves(t, "critical", "time") /\ ~NeedsRefill(buffers[th[t].buf])) =>
                   counter' = counter
             /\ (th[t].pc = "idle" /\ th'[t] # th[t]) => counter' = counter
      ]_vars

\* C33 witness: a batch, a refill and an allocation served from memory have
\* happened, and the last call, rejected or administrative, left the counter at the
\* sum of the amounts reserved.
C33_Witness ==
    /\ th["t1"].pc = "idle"
    /\ th["t1"].op \in {"enable_metrics", "disable_buffering"}
          \/ th["t1"].outcome = "ValueError"
    /\ \E i, j, m \in LogIdx :
          /\ log[i].op = "distinct_batch"
          /\ log[j].buf # 0 /\ log[j].inc = SeqBufferSize
          /\ log[m].buf # 0 /\ log[m].inc = 0
    /\ counter["k1"] = BatchCount + SeqBufferSize

-----------------------------------------------------------------------------
(* Buffered allocation on several keys (SpecFrame) *)

\* C34: with buffering enabled, the counter value a distinct() call on key K uses
\* was reserved from K's own counter: it lies within what K's counter has granted.
C34_Original ==
    \A i \in LogIdx :
        (log[i].op = "distinct" /\ log[i].buf # 0) =>
            (1 <= log[i].first /\ log[i].first <= counter[log[i].key])

-----------------------------------------------------------------------------
(* Buffer sizes enable_buffering() accepts (SpecSizes) *)

\* C35: for every buffer_size enable_buffering() accepts, the value a buffered
\* distinct() has just been served lies in the range the buffer reserved last,
\* max - buffer_size + 1 <= value <= max.
C35_Original ==
    (JustDone("distinct") /\ log[Len(log)].buf # 0) =>
        LET b == buffers[log[Len(log)].buf]
            v == log[Len(log)].first
        IN b.max - b.buffer_size + 1 <= v /\ v <= b.max

-----------------------------------------------------------------------------
(* The bit fields of an identifier (SpecCompose) *)

\* The counter value the k-th identifier of completed call e was composed from.
ValueAt(e, k) == e.first + k - 1

\* C36: the three bit fields of an identifier do not overlap: for every valid
\* shard, every counter value and every time_delta >= 0, id >> 23 = time_delta,
\* (id >> 10) mod 8192 = shard_id and id mod 1024 = counter value mod 1024.
C36_FieldsDoNotOverlap ==
    \A i \in LogIdx :
        TimeDelta(log[i]) >= 0 =>
            \A k \in 1..Len(log[i].ids) :
                LET id == log[i].ids[k]
                IN /\ id \div Pow2(TIME_SHIFT) = TimeDelta(log[i])
                   /\ (id \div Pow2(SHARD_SHIFT)) % SHARD_LIMIT = log[i].shard
                   /\ id % SEQ_MOD = ValueAt(log[i], k) % SEQ_MOD

\* C36 witness: identifiers were composed for shard 8191 from a counter value of
\* 1024 or more with a positive time_delta, and for shard 0 with time_delta 0.
C36_Witness ==
    \E i, j \in LogIdx :
        /\ log[i].shard = SHARD_LIMIT - 1 /\ log[i].got >= SEQ_MOD
        /\ TimeDelta(log[i]) > 0
        /\ log[j].shard = 0 /\ TimeDelta(log[j]) = 0

\* C37 as stated: with time_delta between 0 and the milliseconds of a year, every
\* identifier is positive and below the bound of the time field.
C37_Original ==
    \A i \in LogIdx :
        TimeDelta(log[i]) >= 0 =>
            \A k \in 1..Len(log[i].ids) :
                0 < log[i].ids[k] /\ log[i].ids[k] < Shl(YearMs, TIME_SHIFT)

\* C37 as amended: with time_delta >= 0 every identifier is at least 0 and below
\* (milliseconds of a year) << 23; it is 0 exactly when time_delta, shard and
\* sequence component are all 0.
C37_NonNegativeAndBounded ==
    \A i \in LogIdx :
        TimeDelta(log[i]) >= 0 =>
            /\ TimeDelta(log[i]) < YearMs
            /\ \A k \in 1..Len(log[i].ids) :
                  LET id == log[i].ids[k]
                  IN /\ 0 <= id /\ id < Shl(YearMs, TIME_SHIFT)
                     /\ id = 0 <=> /\ TimeDelta(log[i]) = 0
                                   /\ log[i].shard = 0
                                   /\ ValueAt(log[i], k) % SEQ_MOD = 0

\* C37 witness: the identifier 0 was returned (first millisecond of the year,
\* shard 0, counter value 1024), and an identifier for shard 8191 in the last
\* millisecond of a year.
C37_Witness ==
    \E i, j \in LogIdx :
        /\ log[i].ids[1] = 0 /\ log[i].got = SEQ_MOD
        /\ log[j].shard = SHARD_LIMIT - 1 /\ TimeDelta(log[j]) = YearMs - 1

-----------------------------------------------------------------------------
(* Batches and the local buffer (SpecFail) *)

\* Caller t takes a step of a batch call: it enters one or moves on inside one.
BatchStep(t) ==
    /\ th'[t] # th[t]
    /\ \/ th[t].pc # "idle" /\ th[t].op \in BatchOps
       \/ th[t].pc = "idle" /\ th'[t].op \in BatchOps

\* C38: no step of distinct_batch() or distinct_batch_async() changes a buffer or
\* the installed buffer; a completed batch made one INCRBY of count on the backend
\* and used no buffer, and its range shares no value with the range any buffer
\* holds.
C38_BatchBypassesBuffer ==
    [][/\ \A t \in Threads :
             BatchStep(t) => (buffers' = buffers /\ idBuffer' = idBuffer)
       /\ \A i \in 1..Len(log') :
             log'[i].op \in BatchOps =>
                 /\ log'[i].buf = 0 /\ log'[i].ncalls = 1 /\ log'[i].inc = log'[i].n
                 /\ \A b \in 1..Len(buffers') :
                       buffers'[b].max > 0 =>
                           \/ LastValue(log'[i]) < buffers'[b].max - buffers'[b].buffer_size + 1
                           \/ buffers'[b].max < log'[i].first
      ]_vars

\* C38 witness: with a refilled buffer installed that still holds reserved values,
\* a batch has returned after a buffered distinct().
C38_Witness ==
    \E i, j \in LogIdx :
        /\ i < j
        /\ log[i].op = "distinct" /\ log[i].buf = idBuffer /\ idBuffer # 0
        /\ log[j].op \in BatchOps
        /\ buffers[idBuffer].current <= buffers[idBuffer].max

====
